---- MODULE Spec2Model ----
(***************************************************************************)
(* Resource Governor (ResourceManager, src/src/utils/resourceManager.ts),  *)
(* Session Registry (SessionManager, src/src/toolHandler.ts),              *)
(* Persistence Store (SessionPersistence, src/src/utils/resourceManager.ts)*)
(* and parallel test executor (ParallelTestExecutor, src/unnamed/part_002).*)
(*                                                                         *)
(* The program runs on a single-threaded event loop: a handler runs        *)
(* without interruption up to its next await.  requestBrowserLaunch,       *)
(* releaseBrowser (with the processQueue pass it makes), the timer         *)
(* callback of enqueue and clearQueue contain no await before their last   *)
(* state change, so each is one action.  The methods of SessionManager     *)
(* await the browser engine, the file system or one another, so each is    *)
(* split at its awaits; a method awaited by another one hands its outcome  *)
(* to the code after the await in the step in which it ends.               *)
(***************************************************************************)
EXTENDS Integers, Sequences, FiniteSets, TLC

(* ------------------------------ bounds --------------------------------- *)
\* largest maxConcurrentBrowsers / maxSessionsPerUser / maxQueueSize tried
MaxConcurrent == 2
MaxPerUser == 2
MaxQueue == 2
\* number of operations that may ever be enqueued (caps nextOperationId)
MaxOps == 3
\* priorities are drawn from 0..MaxPriority
MaxPriority == 1
\* the Governor's clock (milliseconds) runs over 0..MaxClock
MaxClock == 1
\* largest queueTimeout (milliseconds) tried
MaxQueueTimeout == 2

Users == {"u1", "u2"}
\* requestBrowserLaunch(userId?) / releaseBrowser(userId?) without a user
NoUser == "undefined"
UserArgs == Users \cup {NoUser}
Priorities == 0..MaxPriority
OpIds == 1..MaxOps

\* browsers the engine may ever launch (caps nextBrowser)
MaxBrowsers == 2
\* SessionManager calls that may be in flight together
MaxCalls == 2
\* identifiers createSession may generate (caps nextSessionId)
MaxGenerated == 1
\* longest list of test scenarios handed to the parallel executor
MaxTests == 3
\* largest maxConcurrency and largest shardTotal tried
MaxConcurrency == 2
MaxShards == 2
\* the registry's clock runs over 0..MaxTime
MaxTime == 1

\* line 938: defaultSessionId
DefaultSessionId == "default"
\* identifiers a caller passes to createSession / closeSession / getSession
CallerIds == {DefaultSessionId, "s1"}
\* createSession(undefined, ...): no identifier given
NoId == "undefined"
\* line 948: `session-${n}`
SessionName(n) == <<"session-1", "session-2", "session-3", "session-4">>[n]
SessionIds == CallerIds \cup {SessionName(n) : n \in 1..MaxGenerated}
BrowserIds == 1..MaxBrowsers
CallSlots == 1..MaxCalls

VARIABLES
    config,           \* ResourceManager.config (the three limits that decide admission)
    activeBrowsers,   \* ResourceManager.activeBrowsers
    sessionsByUser,   \* ResourceManager.sessionsByUser: a Map, DOMAIN = its keys
    queue,            \* ResourceManager.queue: sequence of QueuedOperation
    nextOperationId,  \* ResourceManager.nextOperationId
    processing,       \* ResourceManager.processing
    timers,           \* per operation id: the state of the setTimeout armed by enqueue
    delay,            \* per operation id: the delay handed to that setTimeout
    clock,            \* the value new Date() returned at the last enqueue
    settled,          \* history: per operation id, the resolve/reject calls made on it
    last,             \* history: the last Governor call and what it did
    sessions,         \* SessionManager.sessions: a Map, DOMAIN = its keys
    nextSessionId,    \* SessionManager.nextSessionId
    browsers,         \* the engine's browsers: connection state, 'disconnected' listener
    nextBrowser,      \* the next browser the engine launches
    calls,            \* SessionManager calls suspended at an await
    now,              \* the registry's clock (new Date())
    closedSinceCreate,\* history: per id, a closeSession completed and no createSession
                      \* has stored a session under the id since
    smLast,           \* history: what the SessionManager or SessionPersistence call
                      \* that ended in the last step handed to its caller
    files,            \* the persistence directory: file path -> file content
    saved,            \* history: per id, the record of the last saveSession for the
                      \* id, until a deleteSession for the id
    execution         \* ParallelTestExecutor.execute: the locals of the call in
                      \* flight, the promises of its tests and its response

govVars == <<config, activeBrowsers, sessionsByUser, queue, nextOperationId,
             processing, timers, delay, clock, settled, last>>

smVars == <<sessions, nextSessionId, browsers, nextBrowser, calls, now,
            closedSinceCreate, smLast, files, saved>>

vars == <<config, activeBrowsers, sessionsByUser, queue, nextOperationId,
          processing, timers, delay, clock, settled, last,
          sessions, nextSessionId, browsers, nextBrowser, calls, now,
          closedSinceCreate, smLast, files, saved, execution>>

(* ------------------------------ helpers -------------------------------- *)
Max(a, b) == IF a >= b THEN a ELSE b

\* Map.set(k, v) on a function whose DOMAIN is the key set
MapSet(m, k, v) == [x \in DOMAIN m \cup {k} |-> IF x = k THEN v ELSE m[x]]
\* Map.delete(k)
MapDelete(m, k) == [x \in DOMAIN m \ {k} |-> m[x]]
\* (map.get(k) || 0)
GetOrZero(m, k) == IF k \in DOMAIN m THEN m[k] ELSE 0

QueueTimeouts == 1..MaxQueueTimeout
ConfigChoices ==
    [maxConcurrentBrowsers : 0..MaxConcurrent,
     maxSessionsPerUser    : 0..MaxPerUser,
     maxQueueSize          : 0..MaxQueue,
     queueTimeout          : QueueTimeouts]

(* ------------------------- requestBrowserLaunch ------------------------ *)
\* line 79: this.activeBrowsers >= this.config.maxConcurrentBrowsers
CapacityExhaustedOffByOne == activeBrowsers > config.maxConcurrentBrowsers
CapacityExhausted == activeBrowsers >= config.maxConcurrentBrowsers

\* line 81: this.queue.length >= this.config.maxQueueSize
QueueFullOffByOne == Len(queue) > config.maxQueueSize
QueueFull == Len(queue) >= config.maxQueueSize

\* line 96: userId && this.sessionsByUser.get(userId)! >= maxSessionsPerUser.
\* Map.get of a missing key is undefined, and undefined >= n is false in
\* JavaScript for every number n.
UserLimitNever(userId) == FALSE
UserLimitAtCall(userId) ==
    /\ userId # NoUser
    /\ userId \in DOMAIN sessionsByUser
    /\ sessionsByUser[userId] >= config.maxSessionsPerUser

\* lines 109 / 219: sessionsByUser.set(userId, (get(userId) || 0) + 1)
CountUp(m, userId) ==
    IF userId = NoUser THEN m ELSE MapSet(m, userId, GetOrZero(m, userId) + 1)

\* lines 170-175: the comparator handed to Array.prototype.sort
CompareAscending(a, b) ==
    IF a.priority # b.priority THEN a.priority - b.priority
    ELSE a.createdAt - b.createdAt
Compare(a, b) ==
    IF a.priority # b.priority THEN b.priority - a.priority
    ELSE a.createdAt - b.createdAt

\* Array.prototype.sort is stable: x goes before the first element that
\* compares greater than it, after every element that compares equal.
InsertSorted(s, x) ==
    LET later == {i \in 1..Len(s) : Compare(s[i], x) > 0}
        pos   == IF later = {} THEN Len(s) + 1
                 ELSE CHOOSE i \in later : \A j \in later : i <= j
    IN  SubSeq(s, 1, pos - 1) \o <<x>> \o SubSeq(s, pos, Len(s))

RECURSIVE SortFrom(_, _)
SortFrom(done, todo) ==
    IF todo = <<>> THEN done
    ELSE SortFrom(InsertSorted(done, Head(todo)), Tail(todo))

\* lines 167-175: this.queue.push(operation); this.queue.sort(...)
PushAndSort(q, operation) == SortFrom(<<>>, Append(q, operation))

\* ids of the operations in a queue
QueueIds(q) == {q[i].id : i \in 1..Len(q)}

\* clearTimeout(operation.timeout): an armed timer is cancelled and its
\* callback never runs; clearing a timer that fired or was cleared does nothing
KeepTimer(t, id) == t
ClearTimeout(t, id) == [t EXCEPT ![id] = IF @ = "armed" THEN "cleared" ELSE @]

\* one entry of last.grants: the request granted, the user's count right
\* after the grant and the operations still queued at that moment
GrantEntry(id, userId, priority, m, q) ==
    [id |-> id, userId |-> userId, priority |-> priority,
     count |-> GetOrZero(m, userId), waiting |-> {[id |-> q[i].id, priority |-> q[i].priority] : i \in 1..Len(q)}]

(* ------------------------------ processQueue --------------------------- *)
\* lines 202-204: operation.userId && (get(userId) || 0) >= maxSessionsPerUser
UserLimitAtDequeue(m, userId) ==
    /\ userId # NoUser
    /\ GetOrZero(m, userId) >= config.maxSessionsPerUser

\* the loop, were the rejection at lines 205-213 to end the pass
RECURSIVE ProcessLoopEndsAtRejection(_)
ProcessLoopEndsAtRejection(st) ==
    IF Len(st.queue) > 0 /\ st.activeBrowsers < config.maxConcurrentBrowsers
    THEN LET operation == Head(st.queue)
             rest      == Tail(st.queue)
             cleared   == ClearTimeout(st.timers, operation.id)
         IN  IF UserLimitAtDequeue(st.sessionsByUser, operation.userId)
             THEN [st EXCEPT
                     !.queue   = rest,
                     !.timers  = cleared,
                     !.settled = [@ EXCEPT ![operation.id] = Append(@, "user_limit")]]
             ELSE LET counted == CountUp(st.sessionsByUser, operation.userId)
                  IN  ProcessLoopEndsAtRejection([st EXCEPT
                     !.queue          = rest,
                     !.timers         = cleared,
                     !.activeBrowsers = @ + 1,
                     !.sessionsByUser = counted,
                     !.settled = [@ EXCEPT ![operation.id] = Append(@, "granted")],
                     !.grants  = Append(@, GrantEntry(operation.id, operation.userId,
                                                     operation.priority, counted, rest))])
    ELSE st

\* lines 192-224: the while loop.  st carries the fields the loop changes.
RECURSIVE ProcessLoop(_)
ProcessLoop(st) ==
    IF Len(st.queue) > 0 /\ st.activeBrowsers < config.maxConcurrentBrowsers
    THEN LET operation == Head(st.queue)
             rest      == Tail(st.queue)
             cleared   == ClearTimeout(st.timers, operation.id)
         IN  IF UserLimitAtDequeue(st.sessionsByUser, operation.userId)
             THEN ProcessLoop([st EXCEPT
                     !.queue   = rest,
                     !.timers  = cleared,
                     !.settled = [@ EXCEPT ![operation.id] = Append(@, "user_limit")]])
             ELSE LET counted == CountUp(st.sessionsByUser, operation.userId)
                  IN  ProcessLoop([st EXCEPT
                     !.queue          = rest,
                     !.timers         = cleared,
                     !.activeBrowsers = @ + 1,
                     !.sessionsByUser = counted,
                     !.settled = [@ EXCEPT ![operation.id] = Append(@, "granted")],
                     !.grants  = Append(@, GrantEntry(operation.id, operation.userId,
                                                     operation.priority, counted, rest))])
    ELSE st

\* lines 184-228: the re-entrancy guard, the loop, finally processing = false
ProcessQueue(st) ==
    IF processing \/ Len(st.queue) = 0 THEN st ELSE ProcessLoop(st)

(* ------------------------------ releaseBrowser ------------------------- *)
\* line 117: Math.max(0, this.activeBrowsers - 1)
ReleaseCount(n) == Max(0, n - 1)

\* lines 119-126: count > 1 ? set(count - 1) : delete
CountDown(m, userId) ==
    IF userId = NoUser THEN m
    ELSE IF GetOrZero(m, userId) > 1
         THEN MapSet(m, userId, GetOrZero(m, userId) - 1)
         ELSE MapDelete(m, userId)

\* lines 233-241: removeFromQueue
RemoveNothing(q, id) == q
RemoveFromQueue(q, id) == SelectSeq(q, LAMBDA op : op.id # id)

(* ------------------------------- actions ------------------------------- *)
GovInit ==
    /\ activeBrowsers = 0
    /\ sessionsByUser = << >>
    /\ queue = << >>
    /\ nextOperationId = 1
    /\ processing = FALSE
    /\ timers = [id \in OpIds |-> "unset"]
    /\ delay = [id \in OpIds |-> 0]
    /\ clock = 0
    /\ settled = [id \in OpIds |-> << >>]
    /\ last = [op |-> "none", userId |-> NoUser, result |-> "none", grants |-> << >>]

\* lines 82-88 and 97-103: throw new Error(...) before any field is written
RejectAfterCounting(userId, reason) ==
    /\ last' = [op |-> "request", userId |-> userId, result |-> reason,
                grants |-> << >>]
    /\ sessionsByUser' = CountUp(sessionsByUser, userId)
    /\ UNCHANGED <<config, activeBrowsers, queue, nextOperationId, processing,
                   timers, delay, clock, settled>>
    /\ UNCHANGED <<smVars, execution>>
Reject(userId, reason) ==
    /\ last' = [op |-> "request", userId |-> userId, result |-> reason,
                grants |-> << >>]
    /\ UNCHANGED <<config, activeBrowsers, sessionsByUser, queue, nextOperationId,
                   processing, timers, delay, clock, settled>>
    /\ UNCHANGED <<smVars, execution>>

\* lines 135-179: enqueue.  new Date() is the clock, which between two calls
\* has either stayed in the same millisecond or moved on.
Enqueue(userId, priority, createdAt) ==
    LET id == nextOperationId
        operation == [id |-> id, userId |-> userId, priority |-> priority,
                      createdAt |-> createdAt]
    IN  /\ nextOperationId' = nextOperationId + 1
        /\ clock' = createdAt
        /\ timers' = [timers EXCEPT ![id] = "armed"]
        /\ delay' = [delay EXCEPT ![id] = config.queueTimeout]
        /\ queue' = PushAndSort(queue, operation)
        /\ last' = [op |-> "request", userId |-> userId, result |-> "queued",
                    grants |-> << >>]
        /\ UNCHANGED <<config, activeBrowsers, sessionsByUser, processing, settled>>
        /\ UNCHANGED <<smVars, execution>>

\* lines 77-111
RequestBrowserLaunch(userId, priority, createdAt) ==
    IF CapacityExhausted
    THEN IF QueueFull
         THEN Reject(userId, "queue_full")
         ELSE /\ nextOperationId <= MaxOps
              /\ Enqueue(userId, priority, createdAt)
    ELSE IF UserLimitAtCall(userId)
         THEN Reject(userId, "user_limit")
         ELSE /\ activeBrowsers' = activeBrowsers + 1
              /\ sessionsByUser' = CountUp(sessionsByUser, userId)
              /\ last' = [op |-> "request", userId |-> userId, result |-> "granted",
                          grants |-> <<GrantEntry(0, userId, priority,
                                                  CountUp(sessionsByUser, userId), queue)>>]
              /\ UNCHANGED <<config, queue, nextOperationId, processing, timers,
                             delay, clock, settled>>
              /\ UNCHANGED <<smVars, execution>>

\* lines 116-130
ReleaseBrowser(userId) ==
    LET st == ProcessQueue([queue          |-> queue,
                            activeBrowsers |-> ReleaseCount(activeBrowsers),
                            sessionsByUser |-> CountDown(sessionsByUser, userId),
                            timers         |-> timers,
                            settled        |-> settled,
                            grants         |-> << >>])
    IN  /\ activeBrowsers' = st.activeBrowsers
        /\ sessionsByUser' = st.sessionsByUser
        /\ queue' = st.queue
        /\ timers' = st.timers
        /\ settled' = st.settled
        /\ processing' = FALSE
        /\ last' = [op |-> "release", userId |-> userId, result |-> "released",
                    grants |-> st.grants]
        /\ UNCHANGED <<config, nextOperationId, delay, clock>>
        /\ UNCHANGED <<smVars, execution>>

\* lines 145-154: the callback of the timer armed by enqueue
QueueTimeout(id) ==
    /\ timers[id] = "armed"
    /\ timers' = [timers EXCEPT ![id] = "fired"]
    /\ queue' = RemoveFromQueue(queue, id)
    /\ settled' = [settled EXCEPT ![id] = Append(@, "timeout")]
    /\ last' = [op |-> "timeout", userId |-> NoUser, result |-> "timeout",
                grants |-> << >>]
    /\ UNCHANGED <<config, activeBrowsers, sessionsByUser, nextOperationId,
                   processing, delay, clock>>
    /\ UNCHANGED <<smVars, execution>>

\* lines 354-364
ClearQueue ==
    /\ timers' = [id \in OpIds |->
                    IF id \in QueueIds(queue) /\ timers[id] = "armed"
                    THEN "cleared" ELSE timers[id]]
    /\ settled' = [id \in OpIds |->
                    IF id \in QueueIds(queue) THEN Append(settled[id], "cleared")
                    ELSE settled[id]]
    /\ queue' = << >>
    /\ last' = [op |-> "clear", userId |-> NoUser, result |-> "cleared",
                grants |-> << >>]
    /\ UNCHANGED <<config, activeBrowsers, sessionsByUser, nextOperationId,
                   processing, delay, clock>>
    /\ UNCHANGED <<smVars, execution>>

(* ------------------------------ updateConfig -------------------------- *)
\* Partial<ResourceConfig>: a function from the keys given to their values
ConfigKeys == {"maxConcurrentBrowsers", "maxSessionsPerUser", "maxQueueSize",
               "queueTimeout"}
ValuesOf(key) ==
    CASE key = "maxConcurrentBrowsers" -> 0..MaxConcurrent
      [] key = "maxSessionsPerUser"    -> 0..MaxPerUser
      [] key = "maxQueueSize"          -> 0..MaxQueue
      [] key = "queueTimeout"          -> QueueTimeouts
\* updates of one key: an update of several keys leaves the fields as the
\* updates of its keys made one after the other do
UpdateChoices ==
    UNION {[{key} -> ValuesOf(key)] : key \in ConfigKeys}

\* line 296: { ...this.config, ...updates }
SpreadIgnored(object, updates) == object
Spread(object, updates) ==
    [key \in DOMAIN object \cup DOMAIN updates |->
        IF key \in DOMAIN updates THEN updates[key] ELSE object[key]]

\* lines 295-305.  Lines 299-304 restart the interval of startAutoCleanup,
\* whose callback only logs the usage.
UpdateConfig(updates) ==
    /\ config' = Spread(config, updates)
    /\ last' = [op |-> "updateConfig", userId |-> NoUser, result |-> "updated",
                grants |-> << >>]
    /\ UNCHANGED <<activeBrowsers, sessionsByUser, queue, nextOperationId,
                   processing, timers, delay, clock, settled>>
    /\ UNCHANGED <<smVars, execution>>

(* ========================== SessionPersistence ========================== *)
\* a JavaScript object is a function from its own keys to their values; the
\* value undefined is a key that is present and holds Undefined
Undefined == "undefined"
BlankUrl == "about:blank"

\* resourceManager.ts line 416: persistenceDir = './.playwright-sessions'
PersistenceDir == <<".", ".playwright-sessions">>

\* the segments of an identifier between its '/' separators
Segments(id) ==
    CASE id = "./s1"  -> <<".", "s1">>
      [] id = "a/../s1" -> <<"a", "..", "s1">>
      [] OTHER        -> <<id>>

\* path.normalize on a relative path: '.' segments go, 'x/..' pairs go
RECURSIVE NormalizeFrom(_, _)
NormalizeFrom(done, rest) ==
    IF rest = << >> THEN done
    ELSE LET seg == Head(rest)
         IN  IF seg = "." THEN NormalizeFrom(done, Tail(rest))
             ELSE IF seg = ".." /\ done # << >> /\ done[Len(done)] # ".."
                  THEN NormalizeFrom(SubSeq(done, 1, Len(done) - 1), Tail(rest))
                  ELSE NormalizeFrom(Append(done, seg), Tail(rest))
Normalize(segs) == NormalizeFrom(<< >>, segs)

\* resourceManager.ts lines 581-583: path.join(this.persistenceDir,
\* `${sessionId}.json`), which normalizes the path it builds
GetSessionFilePath(sessionId) ==
    LET segs == Segments(sessionId)
        n    == Len(segs)
    IN  Normalize(PersistenceDir \o SubSeq(segs, 1, n - 1) \o <<segs[n] \o ".json">>)

\* resourceManager.ts line 439: JSON.stringify leaves out the keys that hold undefined
Stringify(object) ==
    [text |-> "json",
     value |-> [k \in {key \in DOMAIN object : object[key] # Undefined} |-> object[k]]]
\* a file that is not JSON text
Garbage == [text |-> "garbage"]
\* resourceManager.ts line 458: JSON.parse gives the object back, or throws on text that is not JSON
Parse(data) ==
    IF data.text = "json" THEN [ok |-> TRUE, value |-> data.value] ELSE [ok |-> FALSE]

\* resourceManager.ts line 442: fs.writeFile(filePath, data) creates or replaces the file
WriteFile(fs, filePath, data) == MapSet(fs, filePath, data)
\* resourceManager.ts lines 476-481: fs.unlink(filePath); ENOENT is ignored
Unlink(fs, filePath) == MapDelete(fs, filePath)

(* ============================ SessionManager ============================ *)
NoCaller == [kind |-> "none"]
IdleCall == [kind |-> "idle", id |-> NoId, pc |-> "idle", browser |-> 0, error |-> FALSE,
             caller |-> NoCaller]
NoBrowser == [status |-> "none", handler |-> NoId]

\* what a call handed to its caller: a value it returned or an error it threw
NoResult == [op |-> "none", id |-> NoId, result |-> "none"]
Outcome(op, id, result) == [op |-> op, id |-> id, result |-> result]

\* lines 56-67 and 376: the singleton is built with the default limits
DefaultConfig ==
    [maxConcurrentBrowsers |-> 5, maxSessionsPerUser |-> 3, maxQueueSize |-> 50,
     queueTimeout |-> 300000]

SMInit ==
    /\ sessions = << >>
    /\ nextSessionId = 1
    /\ browsers = [b \in BrowserIds |-> NoBrowser]
    /\ nextBrowser = 1
    /\ calls = [c \in CallSlots |-> IdleCall]
    /\ now = 0
    /\ closedSinceCreate = [id \in SessionIds |-> FALSE]
    /\ smLast = NoResult

\* the persistence directory is empty, or does not exist yet; no
\* playwright_run_tests_parallel call has been made
NoExecution == [pc |-> "idle"]
EmptyStore == files = << >> /\ saved = << >> /\ execution = NoExecution

\* queueTimeout decides no admission; it starts at the largest value tried
Init ==
    /\ config \in {c \in ConfigChoices : c.queueTimeout = MaxQueueTimeout}
    /\ GovInit /\ SMInit /\ EmptyStore

\* time passes
Tick ==
    /\ now < MaxTime
    /\ now' = now + 1
    /\ smLast' = NoResult
    /\ UNCHANGED <<sessions, nextSessionId, browsers, nextBrowser, calls,
                   closedSinceCreate, files, saved>>
    /\ UNCHANGED <<govVars, execution>>

(* --------------------- what a call does when it resumes ---------------- *)
\* the call in slot c ends and hands outcome to its caller; sess is the
\* registry it leaves behind
Finish(c, outcome, sess) ==
    /\ calls' = [calls EXCEPT ![c] = IdleCall]
    /\ smLast' = outcome
    /\ sessions' = sess

\* the call in slot c suspends again as call
Suspend(c, call, sess) ==
    /\ calls' = [calls EXCEPT ![c] = call]
    /\ smLast' = NoResult
    /\ sessions' = sess

\* lines 1045-1048: getSession refreshes lastAccessedAt of the session it finds
Touch(sess, id) ==
    IF id \in DOMAIN sess THEN [sess EXCEPT ![id].lastAccessedAt = now] ELSE sess

\* browser.isConnected(): false once the engine has lost the browser, which
\* is before the 'disconnected' event reaches the listeners
IsConnected(b) == browsers[b].status = "connected"

\* a closeSession that found this browser's session is suspended in, or is
\* about to run, its finally block
CloseBegun(b) == \E k \in CallSlots : calls[k].kind = "close" /\ calls[k].browser = b

\* a lookup hands the session object to its caller; the two flags record the
\* state of that session at that moment
Found(op, id, sess) ==
    [op |-> op, id |-> id, result |-> "session",
     closing |-> CloseBegun(sess[id].browser),
     connected |-> IsConnected(sess[id].browser)]

\* lines 947-970 for a given identifier: createSession(id, settings) called
\* from inside another method; the caller has made sure id is not registered
CreateCall(id, caller) ==
    [kind |-> "create", id |-> id, pc |-> "launch", browser |-> 0, error |-> FALSE,
     caller |-> caller]

(* ------------------------------ ensureSession -------------------------- *)
\* lines 1069-1085, entered with the session of line 1061 or 1066 in sess
EnsureCheck(c, id, sess) ==
    IF id \notin DOMAIN sess
    THEN Finish(c, Outcome("ensureSession", id, "failed_to_create"), sess)
    ELSE IF ~IsConnected(sess[id].browser)
         THEN Suspend(c, CreateCall(id, [kind |-> "ensure", stage |-> "recreate"]),
                      MapDelete(sess, id))
         ELSE Finish(c, Found("ensureSession", id, sess), sess)

\* lines 1078-1085: after the second createSession the session is returned as
\* getSession finds it
EnsureAfterRecreate(c, id, sess) ==
    IF id \notin DOMAIN sess
    THEN Finish(c, Outcome("ensureSession", id, "failed_to_recreate"), sess)
    ELSE Finish(c, Found("ensureSession", id, sess), sess)

\* the createSession awaited at line 1065 or 1077 returned
EnsureAfterCreate(c) ==
    LET id   == calls[c].id
        sess == Touch(sessions, id)
    IN  IF calls[c].caller.stage = "create"
        THEN EnsureCheck(c, id, sess)
        ELSE EnsureAfterRecreate(c, id, sess)

(* ----------------- recoverSession and recoverAllSessions --------------- *)
NoBatch == [kind |-> "none"]

\* line 1254 / 1262 / 1295: return null, whatever made recovery stop
NullFor(cause) == "null"

\* line 1314: the error text of an entry for a recoverSession that returned null
NullEntryError == "Recovery returned null"

\* lines 1311-1316: the entry recoverAllSessions makes for a recoverSession
\* that returned value, and the loop goes on; cause is history, the caller
\* does not see it
BatchAddOrAbort(batch, id, value, cause) ==
    IF value # "null"
    THEN [batch EXCEPT !.recovered = Append(@, value)]
    ELSE [batch EXCEPT !.pending = << >>,
                       !.failed = Append(@, [id |-> id, error |-> NullEntryError,
                                             cause |-> cause])]
BatchAdd(batch, id, value, cause) ==
    IF value # "null"
    THEN [batch EXCEPT !.recovered = Append(@, value)]
    ELSE [batch EXCEPT !.failed =
             Append(@, [id |-> id, error |-> NullEntryError, cause |-> cause])]

\* lines 1308-1322: the loop of recoverAllSessions goes on with the next
\* record, up to the first await of its recoverSession, or returns the lists
BatchNext(c, batch, sess) ==
    IF batch.pending = << >>
    THEN Finish(c, [op |-> "recoverAllSessions", id |-> NoId, result |-> "returned",
                    loaded |-> batch.loaded, recovered |-> batch.recovered,
                    failed |-> batch.failed], sess)
    ELSE Suspend(c, [kind |-> "recover", id |-> Head(batch.pending), pc |-> "load",
                     browser |-> 0, error |-> FALSE,
                     caller |-> [batch EXCEPT !.pending = Tail(@)]], sess)

\* recoverSession(id) returns value to its caller: a tool, or the loop of
\* recoverAllSessions
RecoverReturn(c, id, value, cause, batch, sess) ==
    IF batch.kind = "none"
    THEN Finish(c, [op |-> "recoverSession", id |-> id, result |-> value,
                    cause |-> cause], sess)
    ELSE BatchNext(c, BatchAdd(batch, id, value, cause), sess)

\* lines 1259-1264: the createSession awaited at line 1258 returned; the
\* restoring awaits of lines 1267-1288 follow (page.evaluate always runs)
RecoverAfterCreate(c) ==
    LET id   == calls[c].id
        sess == Touch(sessions, id)
    IN  IF id \notin DOMAIN sess
        THEN RecoverReturn(c, id, NullFor("session_gone"), "session_gone",
                           calls[c].caller.batch, sess)
        ELSE Suspend(c, [kind |-> "recover", id |-> id, pc |-> "restore",
                         browser |-> sess[id].browser, error |-> FALSE,
                         caller |-> calls[c].caller.batch], sess)

\* lines 1293-1296: the createSession awaited at line 1258 threw
RecoverAfterCreateThrew(c) ==
    RecoverReturn(c, calls[c].id, NullFor("create_error"), "create_error",
                  calls[c].caller.batch, sessions)

(* ------------------------------ createSession -------------------------- *)
\* line 951: this.sessions.has(id)
NeverRegistered(sess, id) == FALSE
AlreadyRegistered(sess, id) == id \in DOMAIN sess

\* createSession returned its id to the method that awaited it
CreateSessionReturned(c) ==
    CASE calls[c].caller.kind = "none" ->
            Finish(c, Outcome("createSession", calls[c].id, "returned"), sessions)
      [] calls[c].caller.kind = "ensure" -> EnsureAfterCreate(c)
      [] calls[c].caller.kind = "recover" -> RecoverAfterCreate(c)

\* createSession threw: ensureSession lets the error through, recoverSession
\* catches it
CreateSessionThrew(c, reason) ==
    CASE calls[c].caller.kind = "none" ->
            Finish(c, Outcome("createSession", calls[c].id, reason), sessions)
      [] calls[c].caller.kind = "ensure" ->
            Finish(c, Outcome("ensureSession", calls[c].id, reason), sessions)
      [] calls[c].caller.kind = "recover" -> RecoverAfterCreateThrew(c)

\* lines 947-970: the identifier, the already-exists check, then the call
\* suspends in await <engine>.launch(...).  The three engines differ in nothing
\* the registry keeps, and BrowserSettings admits no other browserType.
CreateSessionStart(c, sessionId) ==
    LET id == IF sessionId # NoId THEN sessionId ELSE SessionName(nextSessionId)
    IN  /\ calls[c].kind = "idle"
        /\ sessionId = NoId => nextSessionId <= MaxGenerated
        /\ nextSessionId' = IF sessionId # NoId THEN nextSessionId ELSE nextSessionId + 1
        /\ IF AlreadyRegistered(sessions, id)
           THEN /\ smLast' = Outcome("createSession", id, "already_exists")
                /\ UNCHANGED calls
           ELSE /\ smLast' = NoResult
                /\ calls' = [calls EXCEPT ![c] = CreateCall(id, NoCaller)]
        /\ UNCHANGED <<sessions, browsers, nextBrowser, now, closedSinceCreate, files, saved>>
        /\ UNCHANGED <<govVars, execution>>

\* lines 961-970: launch resolves with a new browser ...
CreateSessionLaunched(c) ==
    /\ calls[c].kind = "create" /\ calls[c].pc = "launch"
    /\ nextBrowser <= MaxBrowsers
    /\ browsers' = [browsers EXCEPT ![nextBrowser] = [status |-> "connected", handler |-> NoId]]
    /\ nextBrowser' = nextBrowser + 1
    /\ calls' = [calls EXCEPT ![c].pc = "context", ![c].browser = nextBrowser]
    /\ smLast' = NoResult
    /\ UNCHANGED <<sessions, nextSessionId, now, closedSinceCreate, files, saved>>
    /\ UNCHANGED <<govVars, execution>>

\* ... or rejects, and createSession throws
CreateSessionLaunchFailed(c) ==
    /\ calls[c].kind = "create" /\ calls[c].pc = "launch"
    /\ CreateSessionThrew(c, "launch_error")
    /\ UNCHANGED <<nextSessionId, browsers, nextBrowser, now, closedSinceCreate, files, saved>>
    /\ UNCHANGED <<govVars, execution>>

\* lines 993-1032: newContext and newPage resolve; the 'disconnected' listener
\* is registered, the session is stored with sessions.set(id, session), and the
\* call suspends in await this.persistSession(session)
CreateSessionRegister(c) ==
    LET b == calls[c].browser
    IN  /\ calls[c].kind = "create" /\ calls[c].pc = "context"
        /\ browsers[b].status = "connected"
        /\ browsers' = [browsers EXCEPT ![b].handler = calls[c].id]
        /\ sessions' = MapSet(sessions, calls[c].id, [browser |-> b, lastAccessedAt |-> now])
        /\ closedSinceCreate' = [closedSinceCreate EXCEPT ![calls[c].id] = FALSE]
        /\ calls' = [calls EXCEPT ![c].pc = "persist"]
        /\ smLast' = NoResult
        /\ UNCHANGED <<nextSessionId, nextBrowser, now, files, saved>>
        /\ UNCHANGED <<govVars, execution>>

\* lines 993-994: newContext or newPage rejects, and createSession throws
CreateSessionContextFailed(c) ==
    /\ calls[c].kind = "create" /\ calls[c].pc = "context"
    /\ CreateSessionThrew(c, "launch_error")
    /\ UNCHANGED <<nextSessionId, browsers, nextBrowser, now, closedSinceCreate, files, saved>>
    /\ UNCHANGED <<govVars, execution>>

\* lines 1215-1227: the record persistSession builds for a session whose page
\* has not navigated yet
PersistedData(id) == [id |-> id, pageUrl |-> BlankUrl]

\* resourceManager.ts lines 435-449: saveSession(sessionData)
SaveSession(fs, sessionData) ==
    WriteFile(fs, GetSessionFilePath(sessionData.id), Stringify(sessionData))

\* lines 1032-1034: persistSession took its snapshot and saveSession wrote the
\* file; createSession returns the id
CreateSessionReturn(c) ==
    /\ calls[c].kind = "create" /\ calls[c].pc = "persist"
    /\ files' = SaveSession(files, PersistedData(calls[c].id))
    /\ saved' = MapSet(saved, calls[c].id, PersistedData(calls[c].id))
    /\ CreateSessionReturned(c)
    /\ UNCHANGED <<nextSessionId, browsers, nextBrowser, now, closedSinceCreate>>
    /\ UNCHANGED <<govVars, execution>>

\* lines 1237-1240 and 1034: the catch block of persistSession logs the error
\* and does not rethrow, so createSession goes on to return id
RethrowPersistError(id) == Outcome("createSession", id, "persist_error")
SwallowPersistError(id) == Outcome("createSession", id, "returned")

\* lines 1195-1240: the snapshot (cookies()) or saveSession (mkdir, writeFile)
\* rejects: nothing is written
CreateSessionPersistFailed(c) ==
    /\ calls[c].kind = "create" /\ calls[c].pc = "persist"
    /\ IF calls[c].caller.kind = "none"
       THEN Finish(c, SwallowPersistError(calls[c].id), sessions)
       ELSE CreateSessionReturned(c)
    /\ UNCHANGED <<nextSessionId, browsers, nextBrowser, now, closedSinceCreate, files, saved>>
    /\ UNCHANGED <<govVars, execution>>

\* lines 1042-1051: getSession
GetSessionResult(id) == IF id \in DOMAIN sessions THEN "found" ELSE "not_found"
GetSession(sessionId) ==
    LET id == IF sessionId # NoId THEN sessionId ELSE DefaultSessionId
    IN  /\ sessions' = Touch(sessions, id)
        /\ smLast' = IF id \in DOMAIN sessions
                     THEN Found("getSession", id, sessions)
                     ELSE Outcome("getSession", id, "null")
        /\ UNCHANGED <<nextSessionId, browsers, nextBrowser, calls, now,
                       closedSinceCreate, files, saved>>
        /\ UNCHANGED <<govVars, execution>>

(* --------------------------- cleanupIdleSessions ----------------------- *)
\* line 1178: idleTime > maxIdleTimeMs
IdleAtLeast(idleTime, maxIdleTimeMs) == idleTime >= maxIdleTimeMs
IdleLongerThan(idleTime, maxIdleTimeMs) == idleTime > maxIdleTimeMs

\* line 1176: now.getTime() - session.lastAccessedAt.getTime(), with the now
\* of line 1172
IdleTime(frame, session) == frame.startedAt - session.lastAccessedAt

\* line 1178: the sessions the loop closes when it reaches them
ToClose(frame, sess) ==
    {id \in DOMAIN sess :
        /\ IdleLongerThan(IdleTime(frame, sess[id]), frame.maxIdle)
        /\ id # DefaultSessionId}

\* lines 1175-1188: the loop runs on to its next closeSession, which finds
\* the session it was handed and suspends closing it, or to the return.
\* The loop walks the live Map in insertion order.  lastAccessedAt only grows
\* and a session stored during the walk has lastAccessedAt >= now, so a
\* session the walk has passed without closing, or one stored under the id of
\* a session it closed, never passes the test of line 1178 later: the walk is
\* over exactly when no registered session passes it.  The order in which
\* the remaining sessions are reached is left open.
CleanupLoop(c, frame, sess) ==
    IF ToClose(frame, sess) = {}
    THEN Finish(c, [op |-> "cleanupIdleSessions", id |-> NoId, result |-> "returned",
                    cleanedCount |-> frame.cleanedCount, closed |-> frame.closed,
                    maxIdle |-> frame.maxIdle, startedAt |-> frame.startedAt], sess)
    ELSE \E id \in ToClose(frame, sess) :
            Suspend(c, [kind |-> "close", id |-> id, pc |-> "closing",
                        browser |-> sess[id].browser, error |-> FALSE,
                        caller |-> [frame EXCEPT !.closed =
                                      Append(@, [id |-> id,
                                                 idleTime |-> IdleTime(frame, sess[id])])]],
                    sess)

\* lines 1171-1174
CleanupIdleSessions(c, maxIdleTimeMs) ==
    /\ calls[c].kind = "idle"
    /\ CleanupLoop(c, [kind |-> "cleanup", maxIdle |-> maxIdleTimeMs, startedAt |-> now,
                       cleanedCount |-> 0, closed |-> << >>], sessions)
    /\ UNCHANGED <<nextSessionId, browsers, nextBrowser, now, closedSinceCreate, files, saved>>
    /\ UNCHANGED <<govVars, execution>>

(* ------------------------------ closeSession --------------------------- *)
\* lines 1092-1105: the lookup, the not-found throw, then the call suspends
\* closing the pages and the browser of the session it found
CloseSessionStart(c, sessionId) ==
    /\ calls[c].kind = "idle"
    /\ IF sessionId \notin DOMAIN sessions
       THEN /\ smLast' = Outcome("closeSession", sessionId, "not_found")
            /\ UNCHANGED calls
       ELSE /\ smLast' = NoResult
            /\ calls' = [calls EXCEPT ![c] =
                    [kind |-> "close", id |-> sessionId, pc |-> "closing",
                     browser |-> sessions[sessionId].browser, error |-> FALSE,
                     caller |-> NoCaller]]
    /\ UNCHANGED <<sessions, nextSessionId, browsers, nextBrowser, now, closedSinceCreate,
                   files, saved>>
    /\ UNCHANGED <<govVars, execution>>

\* lines 1101-1105: the pages and the browser are closed; the engine emits
\* 'disconnected' for a browser that was connected
CloseSessionClosed(c) ==
    LET b == calls[c].browser
    IN  /\ calls[c].kind = "close" /\ calls[c].pc = "closing"
        /\ browsers' = [browsers EXCEPT ![b].status =
                          IF @ = "connected" THEN "disconnecting" ELSE @]
        /\ calls' = [calls EXCEPT ![c].pc = "finally"]
        /\ smLast' = NoResult
        /\ UNCHANGED <<sessions, nextSessionId, nextBrowser, now, closedSinceCreate, files, saved>>
        /\ UNCHANGED <<govVars, execution>>

\* lines 1106-1107: closing raised an error, which is caught and logged
CloseSessionError(c) ==
    /\ calls[c].kind = "close" /\ calls[c].pc = "closing"
    /\ calls' = [calls EXCEPT ![c].pc = "finally", ![c].error = TRUE]
    /\ smLast' = NoResult
    /\ UNCHANGED <<sessions, nextSessionId, browsers, nextBrowser, now,
                   closedSinceCreate, files, saved>>
    /\ UNCHANGED <<govVars, execution>>

\* lines 1108-1111: finally { this.sessions.delete(sessionId) }
DeleteUnlessError(m, id, error) == IF error THEN m ELSE MapDelete(m, id)
DeleteInFinally(m, id, error) == MapDelete(m, id)

\* lines 1108-1111, and line 1180 when cleanupIdleSessions awaited the call
CloseSessionFinally(c) ==
    LET sess == DeleteInFinally(sessions, calls[c].id, calls[c].error)
    IN  /\ calls[c].kind = "close" /\ calls[c].pc = "finally"
        /\ closedSinceCreate' = [closedSinceCreate EXCEPT ![calls[c].id] = TRUE]
        /\ IF calls[c].caller.kind = "cleanup"
           THEN CleanupLoop(c, [calls[c].caller EXCEPT !.cleanedCount = @ + 1], sess)
           ELSE Finish(c, Outcome("closeSession", calls[c].id, "closed"), sess)
        /\ UNCHANGED <<nextSessionId, browsers, nextBrowser, now, files, saved>>
        /\ UNCHANGED <<govVars, execution>>

\* the browser process dies or is closed from outside
BrowserCrash(b) ==
    /\ browsers[b].status = "connected"
    /\ browsers' = [browsers EXCEPT ![b].status = "disconnecting"]
    /\ smLast' = NoResult
    /\ UNCHANGED <<sessions, nextSessionId, nextBrowser, calls, now,
                   closedSinceCreate, files, saved>>
    /\ UNCHANGED <<govVars, execution>>

\* line 1010: this.sessions.delete(id), id being the identifier the listener
\* closed over when createSession registered it
ListenerKeeps(sess, handler) == sess
ListenerDeletes(sess, handler) ==
    IF handler # NoId THEN MapDelete(sess, handler) ELSE sess

\* lines 1009-1012: the 'disconnected' event reaches the listener registered
\* for this browser (no listener: the event is dropped)
BrowserDisconnected(b) ==
    /\ browsers[b].status = "disconnecting"
    /\ browsers' = [browsers EXCEPT ![b].status = "disconnected"]
    /\ sessions' = ListenerDeletes(sessions, browsers[b].handler)
    /\ smLast' = NoResult
    /\ UNCHANGED <<nextSessionId, nextBrowser, calls, now, closedSinceCreate, files, saved>>
    /\ UNCHANGED <<govVars, execution>>

(* ------------------------------ ensureSession -------------------------- *)
\* lines 1059-1067: the lookup; an absent session is created
EnsureSessionStart(c, sessionId) ==
    LET id   == IF sessionId # NoId THEN sessionId ELSE DefaultSessionId
        sess == Touch(sessions, id)
    IN  /\ calls[c].kind = "idle"
        /\ IF id \notin DOMAIN sessions
           THEN Suspend(c, CreateCall(id, [kind |-> "ensure", stage |-> "create"]), sess)
           ELSE EnsureCheck(c, id, sess)
        /\ UNCHANGED <<nextSessionId, browsers, nextBrowser, now, closedSinceCreate, files, saved>>
        /\ UNCHANGED <<govVars, execution>>

(* ------------------------------ recoverSession ------------------------- *)
\* lines 1248-1250: the call suspends in await sessionPersistence.loadSession
RecoverSessionStart(c, sessionId) ==
    /\ calls[c].kind = "idle"
    /\ Suspend(c, [kind |-> "recover", id |-> sessionId, pc |-> "load", browser |-> 0,
                   error |-> FALSE, caller |-> NoBatch], sessions)
    /\ UNCHANGED <<nextSessionId, browsers, nextBrowser, now, closedSinceCreate, files, saved>>
    /\ UNCHANGED <<govVars, execution>>

\* resourceManager.ts lines 453-467: loadSession(sessionId)
LoadSession(fs, sessionId) ==
    LET filePath == GetSessionFilePath(sessionId)
    IN  IF filePath \notin DOMAIN fs THEN [result |-> "null"]
        ELSE IF Parse(fs[filePath]).ok
             THEN [result |-> "record", record |-> Parse(fs[filePath]).value]
             ELSE [result |-> "error"]

\* line 1252: if (!persistedData)
NoRecordNever(loaded) == FALSE
NoRecord(loaded) == loaded.result = "null"

\* lines 1250-1258: loadSession settles; no record: return null; a record:
\* createSession(sessionId, settings), which throws at once for a registered id
RecoverSessionLoaded(c) ==
    LET id     == calls[c].id
        batch  == calls[c].caller
        loaded == LoadSession(files, id)
    IN  /\ calls[c].kind = "recover" /\ calls[c].pc = "load"
        /\ IF NoRecord(loaded)
           THEN RecoverReturn(c, id, NullFor("no_record"), "no_record", batch, sessions)
           ELSE IF loaded.result = "error"
           THEN RecoverReturn(c, id, NullFor("unreadable"), "unreadable", batch, sessions)
           ELSE IF AlreadyRegistered(sessions, id)
           THEN RecoverReturn(c, id, NullFor("already_exists"), "already_exists",
                              batch, sessions)
           ELSE Suspend(c, CreateCall(id, [kind |-> "recover", batch |-> batch]), sessions)
        /\ UNCHANGED <<nextSessionId, browsers, nextBrowser, now, closedSinceCreate, files, saved>>
        /\ UNCHANGED <<govVars, execution>>

\* lines 1267-1292: goto, addCookies and evaluate resolve; return sessionId
RecoverSessionRestored(c) ==
    /\ calls[c].kind = "recover" /\ calls[c].pc = "restore"
    /\ RecoverReturn(c, calls[c].id, calls[c].id, "none", calls[c].caller, sessions)
    /\ UNCHANGED <<nextSessionId, browsers, nextBrowser, now, closedSinceCreate, files, saved>>
    /\ UNCHANGED <<govVars, execution>>

\* lines 1267-1296: one of them rejects; the catch block returns null
RecoverSessionRestoreFailed(c) ==
    /\ calls[c].kind = "recover" /\ calls[c].pc = "restore"
    /\ RecoverReturn(c, calls[c].id, NullFor("restore_error"), "restore_error",
                     calls[c].caller, sessions)
    /\ UNCHANGED <<nextSessionId, browsers, nextBrowser, now, closedSinceCreate, files, saved>>
    /\ UNCHANGED <<govVars, execution>>

(* ---------------------------- recoverAllSessions ----------------------- *)
\* line 1304: the call suspends in await sessionPersistence.loadAllSessions()
RecoverAllSessionsStart(c) ==
    /\ calls[c].kind = "idle"
    /\ Suspend(c, [kind |-> "recoverAll", id |-> NoId, pc |-> "loadAll", browser |-> 0,
                   error |-> FALSE, caller |-> NoCaller], sessions)
    /\ UNCHANGED <<nextSessionId, browsers, nextBrowser, now, closedSinceCreate, files, saved>>
    /\ UNCHANGED <<govVars, execution>>

\* the orders in which a directory listing may name the files of S
Orders(S) == {f \in [1..Cardinality(S) -> S] : \A i, j \in DOMAIN f : i # j => f[i] # f[j]}

\* resourceManager.ts lines 488-519: loadAllSessions() lists the directory and
\* keeps the records loadSession could read; an unreadable file is skipped
LoadAllSessions(fs, order) ==
    [i \in DOMAIN order |-> Parse(fs[order[i]]).value]

\* lines 1304-1309: loadAllSessions resolved; the loop starts on its first record
RecoverAllSessionsLoaded(c) ==
    /\ calls[c].kind = "recoverAll" /\ calls[c].pc = "loadAll"
    /\ \E order \in Orders({filePath \in DOMAIN files : Parse(files[filePath]).ok}) :
          LET ids == [i \in DOMAIN order |-> LoadAllSessions(files, order)[i].id]
          IN  BatchNext(c, [kind |-> "batch", loaded |-> ids, pending |-> ids,
                            recovered |-> << >>, failed |-> << >>], sessions)
    /\ UNCHANGED <<nextSessionId, browsers, nextBrowser, now, closedSinceCreate, files, saved>>
    /\ UNCHANGED <<govVars, execution>>

(* ------------------------- SessionPersistence calls -------------------- *)
\* resourceManager.ts lines 435-449: saveSession resolves once the file is
\* written; nothing of the store changes before that
SaveSessionCall(sessionData) ==
    /\ files' = SaveSession(files, sessionData)
    /\ saved' = MapSet(saved, sessionData.id, sessionData)
    /\ smLast' = Outcome("saveSession", sessionData.id, "saved")
    /\ UNCHANGED <<sessions, nextSessionId, browsers, nextBrowser, calls, now,
                   closedSinceCreate>>
    /\ UNCHANGED <<govVars, execution>>

\* resourceManager.ts lines 453-467, by this or by a new SessionPersistence
\* on the same directory: the instance keeps nothing but the directory name
LoadSessionCall(sessionId) ==
    /\ smLast' = [op |-> "loadSession", id |-> sessionId,
                  result |-> LoadSession(files, sessionId).result,
                  loaded |-> LoadSession(files, sessionId)]
    /\ UNCHANGED <<sessions, nextSessionId, browsers, nextBrowser, calls, now,
                   closedSinceCreate, files, saved>>
    /\ UNCHANGED <<govVars, execution>>

\* resourceManager.ts lines 472-483, toolHandler.ts lines 1329-1331
DeleteSessionCall(sessionId) ==
    /\ files' = Unlink(files, GetSessionFilePath(sessionId))
    /\ saved' = MapDelete(saved, sessionId)
    /\ smLast' = Outcome("deleteSession", sessionId, "deleted")
    /\ UNCHANGED <<sessions, nextSessionId, browsers, nextBrowser, calls, now,
                   closedSinceCreate>>
    /\ UNCHANGED <<govVars, execution>>

Next ==
    \/ \E userId \in UserArgs, priority \in Priorities,
          createdAt \in {clock, clock + 1} \cap (0..MaxClock) :
          RequestBrowserLaunch(userId, priority, createdAt)
    \/ \E userId \in UserArgs : ReleaseBrowser(userId)
    \/ \E id \in OpIds : QueueTimeout(id)
    \/ ClearQueue

\* the Governor with the limits fixed at construction; no SessionManager
\* code calls it (the only import, in the parallel test executor, is unused)
Spec == Init /\ [][Next]_vars

\* the timer armed by enqueue fires once its delay has passed, unless cleared
FairSpec == Spec /\ \A id \in OpIds : WF_vars(QueueTimeout(id))

\* the Governor with updateConfig: the limits change while it runs
ConfigUsers == {"u1"}
ConfigNext ==
    \/ \E userId \in ConfigUsers :
          RequestBrowserLaunch(userId, 0, clock)
    \/ \E userId \in ConfigUsers : ReleaseBrowser(userId)
    \/ \E id \in OpIds : QueueTimeout(id)
    \/ \E updates \in UpdateChoices : UpdateConfig(updates)

ConfigSpec == Init /\ [][ConfigNext]_vars

\* the SessionManager singleton, next to the Governor singleton built with
\* the default limits
RegistryInit == config = DefaultConfig /\ GovInit /\ SMInit /\ EmptyStore
RegistryNext ==
    \/ Tick
    \/ \E c \in CallSlots, sessionId \in CallerIds \cup {NoId} : CreateSessionStart(c, sessionId)
    \/ \E c \in CallSlots : CreateSessionLaunched(c)
    \/ \E c \in CallSlots : CreateSessionLaunchFailed(c)
    \/ \E c \in CallSlots : CreateSessionRegister(c)
    \/ \E c \in CallSlots : CreateSessionContextFailed(c)
    \/ \E c \in CallSlots : CreateSessionReturn(c)
    \/ \E c \in CallSlots : CreateSessionPersistFailed(c)
    \/ \E sessionId \in CallerIds \cup {NoId} : GetSession(sessionId)
    \/ \E c \in CallSlots, sessionId \in SessionIds : CloseSessionStart(c, sessionId)
    \/ \E c \in CallSlots : CloseSessionClosed(c)
    \/ \E c \in CallSlots : CloseSessionError(c)
    \/ \E c \in CallSlots : CloseSessionFinally(c)
    \/ \E b \in BrowserIds : BrowserCrash(b)
    \/ \E b \in BrowserIds : BrowserDisconnected(b)
RegistrySpec == RegistryInit /\ [][RegistryNext]_vars

\* callers that obtain their sessions through ensureSession
EnsureNext ==
    \/ \E c \in CallSlots, sessionId \in CallerIds \cup {NoId} : EnsureSessionStart(c, sessionId)
    \/ \E c \in CallSlots : CreateSessionLaunched(c)
    \/ \E c \in CallSlots : CreateSessionLaunchFailed(c)
    \/ \E c \in CallSlots : CreateSessionRegister(c)
    \/ \E c \in CallSlots : CreateSessionContextFailed(c)
    \/ \E c \in CallSlots : CreateSessionReturn(c)
    \/ \E c \in CallSlots : CreateSessionPersistFailed(c)
    \/ \E sessionId \in CallerIds \cup {NoId} : GetSession(sessionId)
    \/ \E c \in CallSlots, sessionId \in CallerIds : CloseSessionStart(c, sessionId)
    \/ \E c \in CallSlots : CloseSessionClosed(c)
    \/ \E c \in CallSlots : CloseSessionError(c)
    \/ \E c \in CallSlots : CloseSessionFinally(c)
    \/ \E b \in BrowserIds : BrowserCrash(b)
    \/ \E b \in BrowserIds : BrowserDisconnected(b)
EnsureSpec == RegistryInit /\ [][EnsureNext]_vars

\* sessions are created and used while time passes, and the idle ones are
\* cleaned up
CleanupNext ==
    \/ Tick
    \/ \E c \in CallSlots, sessionId \in CallerIds : CreateSessionStart(c, sessionId)
    \/ \E c \in CallSlots : CreateSessionLaunched(c)
    \/ \E c \in CallSlots : CreateSessionLaunchFailed(c)
    \/ \E c \in CallSlots : CreateSessionRegister(c)
    \/ \E c \in CallSlots : CreateSessionContextFailed(c)
    \/ \E c \in CallSlots : CreateSessionReturn(c)
    \/ \E c \in CallSlots : CreateSessionPersistFailed(c)
    \/ \E sessionId \in CallerIds : GetSession(sessionId)
    \/ \E c \in CallSlots, maxIdleTimeMs \in 0..MaxTime : CleanupIdleSessions(c, maxIdleTimeMs)
    \/ \E c \in CallSlots : CloseSessionClosed(c)
    \/ \E c \in CallSlots : CloseSessionError(c)
    \/ \E c \in CallSlots : CloseSessionFinally(c)
    \/ \E b \in BrowserIds : BrowserCrash(b)
    \/ \E b \in BrowserIds : BrowserDisconnected(b)
CleanupSpec == RegistryInit /\ [][CleanupNext]_vars

\* the records a caller hands to saveSession: PersistedSessionData with or
\* without the optional metadata, which may hold undefined
StoreIds == {DefaultSessionId, "s1", "./s1"}
Urls == {BlankUrl, "https://example.test/"}
Records ==
    [id : StoreIds, pageUrl : Urls] \cup [id : StoreIds, pageUrl : Urls, metadata : {Undefined}]

\* SessionPersistence on its own
StoreNext ==
    \/ \E sessionData \in Records : SaveSessionCall(sessionData)
    \/ \E sessionId \in StoreIds : LoadSessionCall(sessionId)
    \/ \E sessionId \in StoreIds : DeleteSessionCall(sessionId)
StoreSpec == RegistryInit /\ [][StoreNext]_vars

\* the persistence directory as an earlier run of the program, or an import,
\* left it: per identifier no file, a record, or a file that is not JSON
PersistedStores ==
    UNION {[{GetSessionFilePath(id) : id \in ids} ->
               {Stringify(r) : r \in [id : CallerIds, pageUrl : Urls \ {BlankUrl}]} \cup {Garbage}]
           : ids \in SUBSET CallerIds}
RecoveryInit ==
    /\ config = DefaultConfig /\ GovInit /\ SMInit
    /\ files \in {fs \in PersistedStores :
                    \A filePath \in DOMAIN fs :
                        Parse(fs[filePath]).ok
                            => GetSessionFilePath(Parse(fs[filePath]).value.id) = filePath}
    /\ saved = << >>
    /\ execution = NoExecution

\* the program restarted on that directory and recovers sessions from it
RecoveryNext ==
    \/ \E c \in CallSlots, sessionId \in CallerIds : RecoverSessionStart(c, sessionId)
    \/ \E c \in CallSlots : RecoverSessionLoaded(c)
    \/ \E c \in CallSlots : RecoverSessionRestored(c)
    \/ \E c \in CallSlots : RecoverSessionRestoreFailed(c)
    \/ \E c \in CallSlots : RecoverAllSessionsStart(c)
    \/ \E c \in CallSlots : RecoverAllSessionsLoaded(c)
    \/ \E c \in CallSlots : CreateSessionLaunched(c)
    \/ \E c \in CallSlots : CreateSessionLaunchFailed(c)
    \/ \E c \in CallSlots : CreateSessionRegister(c)
    \/ \E c \in CallSlots : CreateSessionContextFailed(c)
    \/ \E c \in CallSlots : CreateSessionReturn(c)
    \/ \E c \in CallSlots : CreateSessionPersistFailed(c)
    \/ \E b \in BrowserIds : BrowserCrash(b)
    \/ \E b \in BrowserIds : BrowserDisconnected(b)
RecoverySpec == RecoveryInit /\ [][RecoveryNext]_vars

\* callers that name their sessions themselves, session-<k> included, next
\* to callers that let createSession generate the identifier
NamingIds == {"s1"} \cup {SessionName(n) : n \in 1..MaxGenerated}
NamingNext ==
    \/ \E c \in CallSlots, sessionId \in NamingIds \cup {NoId} : CreateSessionStart(c, sessionId)
    \/ \E c \in CallSlots : CreateSessionLaunched(c)
    \/ \E c \in CallSlots : CreateSessionLaunchFailed(c)
    \/ \E c \in CallSlots : CreateSessionRegister(c)
    \/ \E c \in CallSlots : CreateSessionContextFailed(c)
    \/ \E c \in CallSlots : CreateSessionReturn(c)
    \/ \E c \in CallSlots : CreateSessionPersistFailed(c)
    \/ \E c \in CallSlots, sessionId \in NamingIds : CloseSessionStart(c, sessionId)
    \/ \E c \in CallSlots : CloseSessionClosed(c)
    \/ \E c \in CallSlots : CloseSessionError(c)
    \/ \E c \in CallSlots : CloseSessionFinally(c)
NamingSpec == RegistryInit /\ [][NamingNext]_vars

(* ========================= ParallelTestExecutor ======================== *)
\* src/unnamed/part_002.  execute() runs up to its next await without
\* interruption.  A test promise that settles runs its completion handler
\* (lines 115-122), and the continuation of the await that this settles
\* (Promise.race of line 127, Promise.all of line 132) follows in the same
\* drain of the microtask queue, before any other test can settle.
TestNames == {"a", "b"}
TestLists == UNION {[1..n -> TestNames] : n \in 0..MaxTests}
NoShard == [total |-> 0, index |-> 0]
Shards == {NoShard} \cup [total : 1..MaxShards, index : 0..MaxShards]
Statuses == {"passed", "failed", "timeout"}

\* Array.from(activeTests.values())
Values(m) == {m[name] : name \in DOMAIN m}

\* lines 261-275: shardTests keeps tests[i] with i % shardTotal = shardIndex
\* (i counted from 0)
ShardTests(tests, shardIndex, shardTotal) ==
    LET kept == {i \in 1..Len(tests) : (i - 1) % shardTotal = shardIndex}
        RECURSIVE Pick(_)
        Pick(i) == IF i > Len(tests) THEN << >>
                   ELSE IF i \in kept THEN <<tests[i]>> \o Pick(i + 1)
                   ELSE Pick(i + 1)
    IN  Pick(1)

\* line 112: activeTests.set(test.name, testPromise)
SetByName(active, tests, i) == MapSet(active, tests[i], i)

\* lines 108-124: start tests up to the concurrency limit.  testQueue holds
\* the positions in testsToRun of the tests not started yet; executeTest runs
\* up to its first await, inside createSession, and its promise is pending.
RECURSIVE StartTests(_)
StartTests(f) ==
    IF /\ Len(f.testQueue) > 0
       /\ Cardinality(DOMAIN f.activeTests) < f.maxConcurrency
       /\ ~f.shouldStop
    THEN LET i == Head(f.testQueue)
         IN  StartTests([f EXCEPT !.testQueue = Tail(@),
                                  !.promises[i] = "pending",
                                  !.activeTests = SetByName(@, f.tests, i)])
    ELSE f

\* lines 137-147: the response is formatted from the results pushed so far
Return(f) ==
    [f EXCEPT !.pc = "done", !.response = [kind |-> "results", results |-> f.results]]

\* line 132: await Promise.all(Array.from(activeTests.values()))
AwaitAll(f) ==
    IF Values(f.activeTests) = {} THEN Return(f)
    ELSE [f EXCEPT !.pc = "all", !.waiting = Values(f.activeTests)]

\* lines 95-105: the tests still queued are reported as skipped
SkipQueued(f) ==
    [f EXCEPT !.results = @ \o [k \in 1..Len(f.testQueue) |->
                                  [name |-> f.tests[f.testQueue[k]], status |-> "skipped"]]]

\* lines 93-129: the outer while loop, from its test to the next await.  With
\* tests queued, none active and none started the loop runs again at once
\* and never reaches an await: the call spins.
RunLoop(f) ==
    IF Len(f.testQueue) > 0 \/ DOMAIN f.activeTests # {}
    THEN IF f.failFast /\ f.shouldStop
         THEN AwaitAll(SkipQueued(f))
         ELSE LET g == StartTests(f)
              IN  IF DOMAIN g.activeTests # {}
                  THEN [g EXCEPT !.pc = "race", !.waiting = Values(g.activeTests)]
                  ELSE [g EXCEPT !.pc = "spin"]
    ELSE AwaitAll(f)

\* lines 115-122: the completion handler of test i
Completion(f, i, status) ==
    [f EXCEPT !.promises[i] = status,
              !.activeTests = MapDelete(@, f.tests[i]),
              !.results = Append(@, [name |-> f.tests[i], status |-> status]),
              !.shouldStop = @ \/ (f.failFast /\ status = "failed")]

\* the await of execute() that the settled promise i lets continue
Resume(f, i) ==
    IF f.pc = "race" /\ i \in f.waiting
    THEN RunLoop([f EXCEPT !.waiting = {}])
    ELSE IF f.pc = "all" /\ \A j \in f.waiting : f.promises[j] \in Statuses
         THEN Return([f EXCEPT !.waiting = {}])
         ELSE f

\* tests that execution g has started and f had not: each called
\* createSession(undefined, ...), which takes the next identifier (line 948)
Started(f, g) ==
    Cardinality({i \in DOMAIN g.promises : g.promises[i] # "unstarted"})
    - (IF f.pc = "idle" THEN 0
       ELSE Cardinality({i \in DOMAIN f.promises : f.promises[i] # "unstarted"}))

\* lines 63-151: execute(args) up to its first await or to its return.  An
\* invalid shard index makes shardTests throw, which line 148 turns into an
\* error response.
Execute(tests, maxConcurrency, failFast, shard) ==
    LET testsToRun == IF shard = NoShard THEN tests
                      ELSE ShardTests(tests, shard.index, shard.total)
        frame == [pc |-> "run", tests |-> testsToRun, maxConcurrency |-> maxConcurrency,
                  failFast |-> failFast,
                  testQueue |-> [k \in 1..Len(testsToRun) |-> k],
                  activeTests |-> << >>,
                  promises |-> [k \in 1..Len(testsToRun) |-> "unstarted"],
                  results |-> << >>, shouldStop |-> FALSE, waiting |-> {},
                  response |-> [kind |-> "none"]]
    IN  /\ execution.pc = "idle"
        /\ IF shard # NoShard /\ shard.index >= shard.total
           THEN /\ execution' = [pc |-> "done", response |-> [kind |-> "error"]]
                /\ UNCHANGED nextSessionId
           ELSE /\ execution' = RunLoop(frame)
                /\ nextSessionId' = nextSessionId + Started(execution, execution')
        /\ UNCHANGED <<sessions, browsers, nextBrowser, calls, now,
                       closedSinceCreate, smLast, files, saved>>
        /\ UNCHANGED govVars

\* lines 156-220: executeTest(test) returns its result; it catches what its
\* session and its actions throw, so its promise is fulfilled
TestSettles(i, status) ==
    /\ execution.pc \in {"race", "all", "done"}
    /\ execution.response.kind # "error"
    /\ i \in DOMAIN execution.promises
    /\ execution.promises[i] = "pending"
    /\ execution' = Resume(Completion(execution, i, status), i)
    /\ nextSessionId' = nextSessionId + Started(execution, execution')
    /\ UNCHANGED <<sessions, browsers, nextBrowser, calls, now,
                   closedSinceCreate, smLast, files, saved>>
    /\ UNCHANGED govVars

ExecutorNext ==
    \/ \E tests \in TestLists, maxConcurrency \in 0..MaxConcurrency,
          failFast \in BOOLEAN, shard \in Shards :
          Execute(tests, maxConcurrency, failFast, shard)
    \/ \E i \in 1..MaxTests, status \in Statuses : TestSettles(i, status)
ExecutorSpec == RegistryInit /\ [][ExecutorNext]_vars

(* =============================== claims ================================ *)
\* the step just taken was requestBrowserLaunch(userId, ...): every action
\* writes `last`, so on a step that changes the state last' names its action
RequestStepBy(userId) == last'.op = "request" /\ last'.userId = userId

\* C1: with fixed limits, after any sequence of requestBrowserLaunch,
\* releaseBrowser, queue-timeout and queue-reprocessing steps, activeBrowsers
\* is at least 0 and at most maxConcurrentBrowsers.
C1_ActiveWithinLimits ==
    /\ activeBrowsers >= 0
    /\ activeBrowsers <= config.maxConcurrentBrowsers

\* C1 witness: a release whose reprocessing pass granted a queued request and
\* filled the capacity of 2 again
C1_Witness ==
    /\ last.op = "release"
    /\ last.grants # << >>
    /\ config.maxConcurrentBrowsers = 2
    /\ activeBrowsers = config.maxConcurrentBrowsers

\* C2 (as claimed): whenever a request tagged with a user is granted, at once
\* or from the queue, that user's count right after the grant is at most
\* maxSessionsPerUser, for every per-user maximum >= 0.
C2_PerUserCountWithinMaxAtGrant ==
    \A i \in 1..Len(last.grants) :
        last.grants[i].userId # NoUser
            => last.grants[i].count <= config.maxSessionsPerUser

\* C3: every enqueued request is either still queued with no outcome, or out
\* of the queue with exactly one outcome (granted, per-user-limit rejected,
\* timed out or queue cleared); a timer is armed only while its request is
\* queued, so no outcome follows a grant or a clear.
C3_ExactlyOneOutcome ==
    \A id \in OpIds :
        /\ id >= nextOperationId => settled[id] = << >> /\ timers[id] = "unset"
        /\ id < nextOperationId =>
              \/ id \in QueueIds(queue) /\ settled[id] = << >> /\ timers[id] = "armed"
              \/ /\ id \notin QueueIds(queue)
                 /\ settled[id] \in {<<"granted">>, <<"user_limit">>, <<"timeout">>, <<"cleared">>}
                 /\ timers[id] = (IF settled[id] = <<"timeout">> THEN "fired" ELSE "cleared")

\* C3 witness: B was queued behind A, A's release granted B, and B's timer was
\* cancelled
C3_Witness ==
    /\ last.op = "release"
    /\ \E id \in OpIds : settled[id] = <<"granted">> /\ timers[id] = "cleared"

\* C4: a reprocessing pass made by releaseBrowser never grants a request while
\* a request of higher priority, or of equal priority and earlier enqueue, is
\* still in the queue.
C4_GrantsInPriorityThenFifoOrder ==
    last.op = "release" =>
        \A i \in 1..Len(last.grants) : \A w \in last.grants[i].waiting :
            /\ w.priority <= last.grants[i].priority
            /\ w.priority = last.grants[i].priority => w.id > last.grants[i].id

\* C4 witness: a release granted a request while an older request of lower
\* priority stayed queued
C4_Witness ==
    /\ last.op = "release"
    /\ \E i \in 1..Len(last.grants) : \E w \in last.grants[i].waiting :
          w.id < last.grants[i].id /\ w.priority < last.grants[i].priority

\* C5: under fairness of the timers, every queued request eventually is out of
\* the queue with an outcome.
C5_EveryQueuedRequestLeaves ==
    \A id \in OpIds :
        (id \in QueueIds(queue)) ~> (id \notin QueueIds(queue) /\ Len(settled[id]) = 1)

\* C5 witness: a request that was never granted, rejected or cleared timed out
\* and is out of the queue while another one is still waiting
C5_Witness ==
    /\ last.op = "timeout"
    /\ \E id \in OpIds : settled[id] = <<"timeout">> /\ id \notin QueueIds(queue)
    /\ queue # << >>

\* C6: with fixed limits, the queue never holds more than maxQueueSize requests.
C6_QueueWithinMaxQueueSize == Len(queue) <= config.maxQueueSize

\* C6 witness: a request found the queue holding maxQueueSize = 2 entries and
\* was turned away
C6_Witness ==
    /\ last.op = "request" /\ last.result = "queue_full"
    /\ config.maxQueueSize = 2
    /\ Len(queue) = config.maxQueueSize

\* C7: a requestBrowserLaunch that is rejected at call time (queue-full or
\* per-user-limit) is not enqueued and leaves activeBrowsers, every per-user
\* count and the queue as they were.
C7_SyncRejectionChangesNothing ==
    [][(last'.op = "request" /\ last'.result \in {"queue_full", "user_limit"})
          => UNCHANGED <<activeBrowsers, sessionsByUser, queue, nextOperationId,
                         timers, settled>>]_vars

\* C7 witness: maxQueueSize = 0 and the only slot taken: the second request
\* was rejected with queue-full
C7_Witness ==
    /\ last.op = "request" /\ last.result = "queue_full"
    /\ config.maxQueueSize = 0 /\ config.maxConcurrentBrowsers = 1
    /\ activeBrowsers = 1 /\ queue = << >>

\* the user holds sessions and the count recorded for them is at the maximum
AtPerUserMax(userId) ==
    /\ userId \in DOMAIN sessionsByUser
    /\ sessionsByUser[userId] = config.maxSessionsPerUser

\* C8 (as claimed): a request from a user whose count is at the maximum is
\* rejected at call time with a per-user-limit error, whatever the global
\* capacity, and is not placed in the queue.
C8_PerUserLimitAlwaysImmediate ==
    [][\A userId \in Users :
          (AtPerUserMax(userId) /\ RequestStepBy(userId))
              => (last'.result = "user_limit" /\ queue' = queue)]_vars

\* C8 (amended): such a request is rejected at call time with a
\* per-user-limit error, and not queued, when capacity is free; when capacity
\* is exhausted it gets no per-user-limit error at call time: it is rejected
\* with queue-full or enqueued, and the per-user limit is evaluated when
\* processQueue takes it from the queue.
C8_PerUserLimitImmediateWhenCapacityFree ==
    [][\A userId \in Users :
          (AtPerUserMax(userId) /\ RequestStepBy(userId)) =>
              IF activeBrowsers < config.maxConcurrentBrowsers
              THEN last'.result = "user_limit" /\ queue' = queue
              ELSE \/ last'.result = "queue_full" /\ queue' = queue
                   \/ /\ last'.result = "queued"
                      /\ nextOperationId \in QueueIds(queue')
                      /\ settled'[nextOperationId] = << >>]_vars

\* C8 witness: with capacity exhausted, a request of a user who is at the
\* maximum has just been enqueued
C8_Witness ==
    /\ last.op = "request" /\ last.result = "queued"
    /\ last.userId \in Users /\ AtPerUserMax(last.userId)
    /\ nextOperationId - 1 \in QueueIds(queue)

\* C9 (as claimed): every registered session holds one granted admission that
\* is released when the session is removed, so the live sessions never
\* outnumber the Governor's active-instance count.
C9_LiveSessionsHoldAdmissions == Cardinality(DOMAIN sessions) <= activeBrowsers

\* C10: once closeSession(id) has completed, and until a createSession stores
\* a session under id again, getSession(id) reports not-found, also when
\* closing the pages or the browser raised an error.
C10_ClosedSessionNotFound ==
    \A id \in SessionIds : closedSinceCreate[id] => GetSessionResult(id) = "not_found"

\* C10 witness: closeSession(id) completed although closing failed (the browser
\* registered for id is still connected), and id is not found
C10_Witness ==
    \E id \in SessionIds : \E b \in BrowserIds :
        /\ closedSinceCreate[id]
        /\ browsers[b].handler = id /\ browsers[b].status = "connected"
        /\ GetSessionResult(id) = "not_found"

\* C11 (as claimed): closeSession(id) for an id that is absent from the
\* registry does not throw: every closeSession call completes.
C11_CloseOfAbsentIdDoesNotThrow ==
    smLast.op = "closeSession" => smLast.result = "closed"

\* C12 (as claimed): getSession and ensureSession never hand out a session on
\* which a closeSession has begun and not yet removed the entry.
C12_LookupNeverReturnsClosingSession ==
    (smLast.op \in {"getSession", "ensureSession"} /\ smLast.result = "session")
        => ~smLast.closing

\* C13: createSession(id, settings) with an id that is registered throws
\* already-exists, launches no browser, starts no call and leaves the
\* registry as it was, with the original session under id.
C13_CreateOfRegisteredIdFails ==
    [][\A c \in CallSlots, id \in CallerIds :
          (id \in DOMAIN sessions /\ CreateSessionStart(c, id)) =>
              /\ smLast' = Outcome("createSession", id, "already_exists")
              /\ sessions' = sessions /\ id \in DOMAIN sessions'
              /\ browsers' = browsers /\ nextBrowser' = nextBrowser
              /\ calls' = calls]_vars

\* C13 witness: createSession("s1") was refused while "s1" is registered on
\* a connected browser
C13_Witness ==
    /\ smLast = Outcome("createSession", "s1", "already_exists")
    /\ "s1" \in DOMAIN sessions
    /\ IsConnected(sessions["s1"].browser)

C15_RecoverWithoutRecordChangesNothing ==
    [][\A c \in CallSlots :
          /\ (\E id \in CallerIds : RecoverSessionStart(c, id))
                => UNCHANGED <<sessions, browsers, nextBrowser, files>>
          /\ (/\ calls[c].kind = "recover" /\ calls[c].pc = "load"
              /\ calls[c].caller.kind = "none"
              /\ GetSessionFilePath(calls[c].id) \notin DOMAIN files
              /\ RecoverSessionLoaded(c))
                => /\ smLast' = [op |-> "recoverSession", id |-> calls[c].id,
                                 result |-> "null", cause |-> "no_record"]
                   /\ calls'[c] = IdleCall
                   /\ UNCHANGED <<sessions, browsers, nextBrowser, files>>]_vars

\* C15 witness: recoverSession("s1") returned null for want of a record while
\* a record of another session is on disk
C15_Witness ==
    /\ smLast.op = "recoverSession" /\ smLast.id = "s1" /\ smLast.cause = "no_record"
    /\ GetSessionFilePath("s1") \notin DOMAIN files
    /\ GetSessionFilePath(DefaultSessionId) \in DOMAIN files

\* the elements of a sequence
Range(seq) == {seq[i] : i \in DOMAIN seq}

\* C16: recoverAllSessions always returns its two lists, and every record
\* loadAllSessions gave it has its id in exactly one of them: recovered or
\* failed.
C16_EveryLoadedRecordRecoveredOrFailed ==
    /\ \A c \in CallSlots :
          calls[c].caller.kind \in {"batch", "recover"} =>
              LET batch == IF calls[c].caller.kind = "batch" THEN calls[c].caller
                           ELSE calls[c].caller.batch
              IN  batch.kind = "batch" =>
                      Len(batch.recovered) + Len(batch.failed) + Len(batch.pending) + 1
                          = Len(batch.loaded)
    /\ smLast.op = "recoverAllSessions" =>
          LET failedIds == {smLast.failed[i].id : i \in DOMAIN smLast.failed}
          IN  /\ smLast.result = "returned"
              /\ Range(smLast.recovered) \cup failedIds = Range(smLast.loaded)
              /\ Range(smLast.recovered) \cap failedIds = {}
              /\ Len(smLast.recovered) + Len(smLast.failed) = Len(smLast.loaded)

\* C16 witness: the first record could not be recovered and the record after
\* it was
C16_Witness ==
    /\ smLast.op = "recoverAllSessions"
    /\ Len(smLast.loaded) = 2
    /\ Len(smLast.failed) = 1 /\ smLast.failed[1].id = smLast.loaded[1]
    /\ smLast.recovered = <<smLast.loaded[2]>>

\* C17: when the snapshot or the write of persistSession fails, createSession
\* still returns the id, and the failure changes neither the registry nor the
\* browser of the session.
C17_PersistFailureDoesNotFailCreate ==
    [][\A c \in CallSlots :
          (calls[c].caller.kind = "none" /\ CreateSessionPersistFailed(c)) =>
              /\ smLast' = Outcome("createSession", calls[c].id, "returned")
              /\ sessions' = sessions /\ browsers' = browsers]_vars

\* C17 witness: createSession("s1") returned, no record of "s1" was written,
\* and "s1" is registered on a connected browser
C17_Witness ==
    /\ smLast = Outcome("createSession", "s1", "returned")
    /\ GetSessionFilePath("s1") \notin DOMAIN files
    /\ "s1" \in DOMAIN sessions
    /\ IsConnected(sessions["s1"].browser)

\* the same record: same keys and values, a key that holds undefined
\* counting as a key that is not there
SameRecord(a, b) == Stringify(a) = Stringify(b)

\* C18 (as claimed): while the last saveSession for an id has not been
\* followed by a deleteSession for that id, loadSession(id) returns a record
\* equal to the one saved.
C18_LoadReturnsWhatWasSaved ==
    (smLast.op = "loadSession" /\ smLast.id \in DOMAIN saved) =>
        /\ smLast.result = "record"
        /\ SameRecord(smLast.loaded.record, saved[smLast.id])

\* C19 (as claimed): the browser of a session returned by ensureSession
\* reports connected at the moment of the return.
C19_EnsureReturnsConnectedSession ==
    (smLast.op = "ensureSession" /\ smLast.result = "session") => smLast.connected

\* C20 (as claimed): what recoverSession returns when recovery failed differs
\* from what it returns for a missing record, and so do the entries
\* recoverAllSessions makes for the two.
C20_MissingRecordToldFromFailure ==
    /\ (smLast.op = "recoverSession" /\ smLast.cause \notin {"none", "no_record"})
          => smLast.result # NullFor("no_record")
    /\ smLast.op = "recoverAllSessions" =>
          \A i \in DOMAIN smLast.failed :
              smLast.failed[i].cause # "no_record"
                  => smLast.failed[i].error # NullEntryError

\* C21: updateConfig replaces the limits and changes neither the counters nor
\* the queue; every requestBrowserLaunch and every reprocessing pass that runs
\* after it decides with the limits then in force; and a request that waits
\* in the queue keeps the timeout delay its timer was armed with at enqueue.
C21_UpdateTakesEffectAndKeepsDeadlines ==
    [][/\ \A updates \in UpdateChoices :
             UpdateConfig(updates) =>
                /\ \A key \in DOMAIN updates : config'[key] = updates[key]
                /\ \A key \in ConfigKeys \ DOMAIN updates : config'[key] = config[key]
                /\ UNCHANGED <<activeBrowsers, sessionsByUser, queue, timers,
                               delay, settled>>
       /\ last'.op = "request" =>
             /\ last'.result = "granted" <=>
                   /\ activeBrowsers < config.maxConcurrentBrowsers
                   /\ activeBrowsers' = activeBrowsers + 1
             /\ last'.result = "queued" <=>
                   /\ activeBrowsers >= config.maxConcurrentBrowsers
                   /\ Len(queue) < config.maxQueueSize
             /\ last'.result = "queue_full" <=>
                   /\ activeBrowsers >= config.maxConcurrentBrowsers
                   /\ Len(queue) >= config.maxQueueSize
             /\ last'.result = "user_limit" =>
                   /\ activeBrowsers < config.maxConcurrentBrowsers
                   /\ GetOrZero(sessionsByUser, last'.userId) >= config.maxSessionsPerUser
       /\ last'.op = "release" =>
             /\ queue' = << >> \/ activeBrowsers' >= config.maxConcurrentBrowsers
             /\ last'.grants # << >> => activeBrowsers' <= config.maxConcurrentBrowsers
       /\ \A id \in OpIds :
             timers[id] = "armed" /\ timers'[id] = "armed" => delay'[id] = delay[id]
      ]_vars

\* C21 witness: the last call was updateConfig, and a request waits whose
\* timer is armed with a delay other than the queueTimeout now in force
C21_Witness ==
    /\ last.op = "updateConfig"
    /\ queue # << >>
    /\ \E i \in 1..Len(queue) :
          /\ timers[queue[i].id] = "armed"
          /\ delay[queue[i].id] # config.queueTimeout

\* the operations a step rejected with the per-user-limit error at dequeue
RejectedAtDequeue ==
    {id \in OpIds : /\ Len(settled'[id]) = Len(settled[id]) + 1
                    /\ settled'[id][Len(settled'[id])] = "user_limit"}

\* the requests a reprocessing pass granted to the user
GrantsTo(userId) ==
    Cardinality({i \in 1..Len(last'.grants) : last'.grants[i].userId = userId})

\* C22: a reprocessing pass that pops a request whose user is at the per-user
\* maximum rejects it without counting it (activeBrowsers and the per-user
\* counts move only by the release and by the grants of the pass) and goes on
\* with the next queued request: the pass ends only with the queue empty or
\* the capacity used up, so the freed slot goes to the next eligible request.
C22_DequeueRejectionTakesNoSlot ==
    [][(last'.op = "release" /\ RejectedAtDequeue # {}) =>
          /\ activeBrowsers' = ReleaseCount(activeBrowsers) + Len(last'.grants)
          /\ \A userId \in Users :
                GetOrZero(sessionsByUser', userId) =
                    GetOrZero(CountDown(sessionsByUser, last'.userId), userId)
                    + GrantsTo(userId)
          /\ \A id \in RejectedAtDequeue :
                id \in QueueIds(queue) /\ id \notin QueueIds(queue')
          /\ queue' = << >> \/ activeBrowsers' >= config.maxConcurrentBrowsers
      ]_vars

\* C22 witness: operation 2 (higher priority, its user at the maximum) was
\* enqueued while operation 1 waited; the release rejected 2 and then granted
\* the freed slot to 1 in the same pass
C22_Witness ==
    /\ last.op = "release"
    /\ Len(last.grants) = 1 /\ last.grants[1].id = 1
    /\ settled[1] = <<"granted">>
    /\ settled[2] = <<"user_limit">>

\* C25: after any sequence of requestBrowserLaunch, releaseBrowser, queue
\* timeouts and updateConfig, a non-empty queue means that activeBrowsers is
\* at least maxConcurrentBrowsers: no request waits while capacity is free.
C25_NoWaitingWhileCapacityFree ==
    queue # << >> => activeBrowsers >= config.maxConcurrentBrowsers

\* the closeSession call in slot c, made from outside, ends in this step
CloseEnds(c) ==
    /\ calls[c].kind = "close" /\ calls[c].pc = "finally"
    /\ calls[c].caller.kind = "none"
    /\ calls'[c].kind = "idle"

\* the 'disconnected' listener of browser b runs in this step
ListenerRuns(b) ==
    browsers[b].status = "disconnecting" /\ browsers'[b].status = "disconnected"

\* C23: when the 'disconnected' listener of a session's browser runs while a
\* closeSession of that session is in flight, either order of the two
\* removals works: the listener leaves the call in flight as it is and
\* removes at most the entry of its identifier, the removal that comes second
\* finds the identifier absent and changes nothing, closeSession ends without
\* an error, and the identifier is absent from the registry once it has ended.
C23_DisconnectDuringCloseIsHarmless ==
    [][/\ \A b \in BrowserIds :
             ListenerRuns(b) /\ CloseBegun(b) =>
                /\ calls' = calls
                /\ sessions' = MapDelete(sessions, browsers[b].handler)
                /\ browsers[b].handler \notin DOMAIN sessions => sessions' = sessions
       /\ \A c \in CallSlots :
             CloseEnds(c) =>
                /\ smLast' = Outcome("closeSession", calls[c].id, "closed")
                /\ calls[c].id \notin DOMAIN sessions'
                /\ calls[c].id \notin DOMAIN sessions => sessions' = sessions
      ]_vars

\* C23 witness: the only browser ever launched was registered under s1, its
\* listener ran while closeSession('s1') was in flight and removed the entry,
\* and the call then ended without an error
C23_Witness ==
    /\ smLast = Outcome("closeSession", "s1", "closed")
    /\ nextBrowser = 2
    /\ browsers[1] = [status |-> "disconnected", handler |-> "s1"]
    /\ "s1" \notin DOMAIN sessions

\* the recoverSession call in slot c, or the createSession it awaits, takes
\* a step
RecoverySteps(c) ==
    /\ \/ calls[c].kind = "recover"
       \/ calls[c].kind = "create" /\ calls[c].caller.kind = "recover"
    /\ calls'[c] # calls[c]

\* C26: no step of recoverSession(id) changes what loadSession(id) returns:
\* the record persisted before the recovery is still the one loaded after it.
C26_RecoveryKeepsThePersistedRecord ==
    [][\A c \in CallSlots :
          RecoverySteps(c) =>
              LoadSession(files', calls[c].id) = LoadSession(files, calls[c].id)]_vars

\* C27: when recoverSession(id) returns null after it created a session, the
\* registry holds no entry for the browser that call launched.
C27_FailedRecoveryLeavesNoSession ==
    [][\A c \in CallSlots :
          (/\ calls[c].kind = "recover" /\ calls[c].pc = "restore"
           /\ calls'[c].kind = "idle"
           /\ smLast'.op = "recoverSession" /\ smLast'.result = "null")
          => \A id \in DOMAIN sessions' : sessions'[id].browser # calls[c].browser]_vars

\* the createSession call in slot c stores its session in this step
Registers(c) ==
    calls[c].kind = "create" /\ calls[c].pc = "context" /\ calls'[c].pc = "persist"

\* the entries of registry sess that reference browser b
Owners(sess, b) == {id \in DOMAIN sess : sess[id].browser = b}

\* C28: of createSession calls that overlap on one identifier at most one
\* succeeds (a call stores its session, and so returns the identifier, only
\* while no entry of that identifier exists), and no launched browser is left
\* running without an entry: when a call has stored its session, its browser
\* and every browser that had an entry before are referenced by exactly one
\* entry each.
C28_OverlappingCreatesLeaveNoOrphan ==
    [][\A c \in CallSlots :
          Registers(c) =>
             /\ calls[c].id \notin DOMAIN sessions
             /\ Cardinality(Owners(sessions', calls[c].browser)) = 1
             /\ \A b \in BrowserIds :
                   Owners(sessions, b) # {} => Cardinality(Owners(sessions', b)) = 1
      ]_vars

\* C29: the 'disconnected' listener of browser b removes no entry but the one
\* that owns b: every entry of another browser is still there after it ran.
C29_ListenerRemovesOnlyItsOwnEntry ==
    [][\A b \in BrowserIds :
          ListenerRuns(b) =>
             \A id \in DOMAIN sessions :
                sessions[id].browser # b => id \in DOMAIN sessions']_vars

\* C30: a createSession without an identifier (the call that takes the next
\* number) never ends with the already-exists error, and the identifier it
\* generates is not the identifier of a registered session.
C30_GeneratedIdentifierIsFresh ==
    [][nextSessionId' = nextSessionId + 1 =>
          /\ smLast' # Outcome("createSession", SessionName(nextSessionId), "already_exists")
          /\ SessionName(nextSessionId) \notin DOMAIN sessions]_vars

\* the tests of the execution whose promise is pending
Executing == {i \in DOMAIN execution.promises : execution.promises[i] = "pending"}

\* how many entries of results carry the name
Reported(results, name) ==
    Cardinality({k \in 1..Len(results) : results[k].name = name})

\* C24: in the parallel test executor the number of scenarios executing at
\* the same time never exceeds maxConcurrency, and the run returns only
\* after every started scenario has produced its result: the results it
\* returns hold every scenario selected to run exactly once, as passed,
\* failed, timeout or skipped.
C24_BoundedConcurrencyAndCompleteResults ==
    execution.pc \in {"race", "all", "spin", "done"} /\ execution.response.kind # "error" =>
        /\ Cardinality(Executing) <= execution.maxConcurrency
        /\ execution.pc = "done" =>
              /\ Executing = {}
              /\ \A name \in TestNames :
                    Reported(execution.response.results, name) =
                        Cardinality({i \in 1..Len(execution.tests) : execution.tests[i] = name})
              /\ \A k \in 1..Len(execution.response.results) :
                    execution.response.results[k].status \in Statuses \cup {"skipped"}
====
